---- MODULE Spec2Model ----
(***************************************************************************)
(* A model of behavenet's loss primitives (behavenet/fitting/losses.py)    *)
(* and of the VAEGAN / ConvDecoder classes (behavenet/models/vaegan.py).   *)
(*                                                                         *)
(* Real numbers are modelled exactly as normalised rationals <<num, den>>. *)
(* exp and log are computed in fixed point with Prec fractional units and  *)
(* their results are rationals with denominator Prec.                      *)
(***************************************************************************)
EXTENDS Integers, Sequences, FiniteSets, TLC

----------------------------------------------------------------------------
(* Rational arithmetic: the float arithmetic of numpy / torch scalars.     *)
(* TLC passes operator arguments by name; an operator that reads an        *)
(* argument more than once binds it through a one-element set first, which *)
(* evaluates it once.                                                      *)

RECURSIVE GCD(_, _)
GCD(a, b) == IF b = 0 THEN a ELSE GCD(b, a % b)

Abs(a) == IF a < 0 THEN 0 - a ELSE a

\* the normalised rational n / d (d # 0)
Rat(n, d) ==
    CHOOSE r \in { LET g == GCD(Abs(x), Abs(y))
                       s == IF y < 0 THEN 0 - 1 ELSE 1
                   IN  <<(s * x) \div g, (s * y) \div g>> : x \in {n}, y \in {d} } : TRUE

R(n) == <<n, 1>>

RAdd(a, b) ==
    CHOOSE r \in { LET g == GCD(x[2], y[2])
                   IN  Rat(x[1] * (y[2] \div g) + y[1] * (x[2] \div g), x[2] * (y[2] \div g)) :
                   x \in {a}, y \in {b} } : TRUE

RNeg(a) == CHOOSE r \in { <<0 - x[1], x[2]>> : x \in {a} } : TRUE

RSub(a, b) == RAdd(a, RNeg(b))

RMul(a, b) ==
    CHOOSE r \in { LET g1 == GCD(Abs(x[1]), y[2])
                       g2 == GCD(Abs(y[1]), x[2])
                   IN  Rat((x[1] \div g1) * (y[1] \div g2), (x[2] \div g2) * (y[2] \div g1)) :
                   x \in {a}, y \in {b} } : TRUE

RDiv(a, b) == CHOOSE r \in { RMul(a, Rat(y[2], y[1])) : y \in {b} } : TRUE

RLe(a, b) == RSub(a, b)[1] <= 0

RAbs(a) == CHOOSE r \in { <<Abs(x[1]), x[2]>> : x \in {a} } : TRUE

\* sum of a sequence of rationals, left to right
RECURSIVE RSumV(_)
RSumV(s) == IF s = <<>> THEN R(0) ELSE RAdd(RSumV(SubSeq(s, 1, Len(s) - 1)), s[Len(s)])

RSum(s) == CHOOSE r \in { RSumV(x) : x \in {s} } : TRUE

\* torch.mean over a one-dimensional tensor
RMean(s) == CHOOSE r \in { RDiv(RSum(x), R(Len(x))) : x \in {s} } : TRUE

RECURSIVE RMaxV(_)
RMaxV(s) ==
    IF Len(s) = 1 THEN s[1]
    ELSE CHOOSE r \in { IF RLe(m, s[Len(s)]) THEN s[Len(s)] ELSE m :
                        m \in {RMaxV(SubSeq(s, 1, Len(s) - 1))} } : TRUE

RMax(s) == CHOOSE r \in { RMaxV(x) : x \in {s} } : TRUE

----------------------------------------------------------------------------
(* exp and log in fixed point                                              *)

\* fractional units of the fixed-point transcendental functions
Prec == 1024

ToFix(a) == CHOOSE r \in { (x[1] * Prec) \div x[2] : x \in {a} } : TRUE

\* exp of x / Prec, in units of 1 / Prec
RECURSIVE ExpFix(_)
ExpFix(x) ==
    IF x < 0 - 16 * Prec THEN 0
    ELSE IF Abs(x) <= Prec \div 8
         THEN Prec + x + (x * x) \div (2 * Prec) + (((x * x) \div Prec) * x) \div (6 * Prec)
         ELSE LET e == ExpFix(x \div 2)
                  h == ExpFix(x - (x \div 2))
              IN  (e * h) \div Prec

\* log of y / Prec for y >= Prec, in units of 1 / Prec
RECURSIVE LnFix(_)
LnFix(y) ==
    IF y >= 2 * Prec THEN 710 + LnFix(y \div 2)
    ELSE LET u  == ((y - Prec) * Prec) \div (y + Prec)
             u2 == (u * u) \div Prec
             u3 == (u2 * u) \div Prec
             u5 == (u3 * u2) \div Prec
             u7 == (u5 * u2) \div Prec
         IN  2 * (u + u3 \div 3 + u5 \div 5 + u7 \div 7)

\* torch.exp / np.exp
Exp(a) == CHOOSE r \in { Rat(ExpFix(x), Prec) : x \in {ToFix(a)} } : TRUE

\* np.log, for arguments >= 1
Ln(a) == CHOOSE r \in { Rat(LnFix(x), Prec) : x \in {ToFix(a)} } : TRUE

\* torch.logsumexp over a one-dimensional tensor: max + log(sum(exp(v - max)))
LogSumExp(s) ==
    CHOOSE r \in { RAdd(m, Ln(RSum([i \in 1..Len(x) |-> Exp(RSub(x[i], m))]))) :
                   x \in {s}, m \in {RMax(s)} } : TRUE

----------------------------------------------------------------------------
(* behavenet/fitting/losses.py                                             *)
(* A tensor of shape (n_frames, n_dims) is a sequence of rows; the non-    *)
(* frame axes of an image batch are flattened into one axis of n_dims.     *)

\* Python's None
None == <<>>

\* np.log(2 * np.pi) = 1.8379, to the resolution 1 / Prec
LN2PI == Rat(1882, Prec)

Half == Rat(1, 2)

Sq(a) == RMul(a, a)

\* (y_pred - y_true) ** 2, times the mask when one is given
DiffSq(y_pred, y_true, masks) ==
    CHOOSE r \in { [i \in 1..Len(a) |->
                      [p \in 1..Len(a[i]) |->
                          IF m # None
                          THEN RMul(Sq(RSub(a[i][p], b[i][p])), m[i][p])
                          ELSE Sq(RSub(a[i][p], b[i][p]))]] :
                   a \in {y_pred}, b \in {y_true}, m \in {masks} } : TRUE

\* all entries of a two-dimensional tensor, row after row
RECURSIVE FlattenV(_)
FlattenV(t) == IF t = <<>> THEN <<>> ELSE FlattenV(SubSeq(t, 1, Len(t) - 1)) \o t[Len(t)]

Flatten(t) == CHOOSE r \in { FlattenV(x) : x \in {t} } : TRUE

mse(y_pred, y_true, masks) == RMean(Flatten(DiffSq(y_pred, y_true, masks)))

\* gaussian_ll with the dimension count reduced to the unmasked entries
gaussian_ll_unmasked_dims(y_pred, y_mean, masks, std) ==
    LET dims    == <<Len(y_pred), Len(y_pred[1])>>
        log_var == Ln(Sq(std))
        diff_sq == DiffSq(y_pred, y_mean, masks)
        ll == [i \in 1..dims[1] |->
                 RSub(RMul(RNeg(RAdd(RMul(Half, LN2PI), RMul(Half, log_var))),
                           IF masks # None THEN RSum(masks[i]) ELSE R(dims[2])),
                      RMul(RDiv(Half, Sq(std)), RSum(diff_sq[i])))]
    IN  RMean(ll)

gaussian_ll(y_pred, y_mean, masks, std) ==
    LET dims    == <<Len(y_pred), Len(y_pred[1])>>
        n_dims  == dims[2]
        log_var == Ln(Sq(std))
        diff_sq == DiffSq(y_pred, y_mean, masks)
        ll == [i \in 1..dims[1] |->
                 RSub(RMul(RNeg(RAdd(RMul(Half, LN2PI), RMul(Half, log_var))), R(n_dims)),
                      RMul(RDiv(Half, Sq(std)), RSum(diff_sq[i])))]
    IN  RMean(ll)

gaussian_ll_to_mse_nomean(ll, n_dims, gaussian_std, mse_std) ==
    LET llc1 == RAdd(ll, RMul(RAdd(RMul(Half, LN2PI), RMul(Half, Ln(Sq(gaussian_std)))),
                              R(n_dims)))
        llc2 == RMul(llc1, RDiv(RNeg(Sq(gaussian_std)), Half))
    IN  RMul(llc2, RDiv(R(1), Sq(mse_std)))

gaussian_ll_to_mse(ll, n_dims, gaussian_std, mse_std) ==
    LET llc0 == ll                                            \* np.copy(ll)
        llc1 == RAdd(llc0, RMul(RAdd(RMul(Half, LN2PI),
                                     RMul(Half, Ln(Sq(gaussian_std)))), R(n_dims)))
        llc2 == RMul(llc1, RDiv(RNeg(Sq(gaussian_std)), Half))
        llc3 == RDiv(llc2, R(n_dims))
    IN  RMul(llc3, RDiv(R(1), Sq(mse_std)))

kl_div_to_std_normal(mu, logvar) ==
    LET kl == [i \in 1..Len(mu) |->
                 RMul(Half, RSum([l \in 1..Len(mu[i]) |->
                     RSub(RAdd(RSub(Exp(logvar[i][l]), logvar[i][l]), Sq(mu[i][l])), R(1))]))]
    IN  RMean(kl)

\* broadcast of z[:, None] against mu[None, :], logvar[None, :]: the result is
\* indexed [j][i][l]
_gaussian_log_density_unsummed(z, mu, logvar) ==
    [j \in 1..Len(z) |-> [i \in 1..Len(mu) |-> [l \in 1..Len(z[j]) |->
        LET diff_sq == Sq(RSub(z[j][l], mu[i][l]))
            inv_var == Exp(RNeg(logvar[i][l]))
        IN  RMul(RNeg(Half), RAdd(RAdd(RMul(inv_var, diff_sq), logvar[i][l]), LN2PI))]]]

_gaussian_log_density_unsummed_std_normal(z) ==
    [j \in 1..Len(z) |-> [l \in 1..Len(z[j]) |->
        LET diff_sq == Sq(z[j][l])
        IN  RMul(RNeg(Half), RAdd(diff_sq, LN2PI))]]

\* torch.sum(t, dim=2) of a [j][i][l] tensor: [j][i]
SumDim2(t) ==
    CHOOSE r \in { [j \in 1..Len(x) |-> [i \in 1..Len(x[j]) |-> RSum(x[j][i])]] :
                   x \in {t} } : TRUE

\* torch.sum(t, dim=1) of a [j][l] tensor: [j]
SumDim1(t) == CHOOSE r \in { [j \in 1..Len(x) |-> RSum(x[j])] : x \in {t} } : TRUE

\* torch.logsumexp(t, dim=1) of a [j][i] tensor: [j]
LogSumExpDim1(t) == CHOOSE r \in { [j \in 1..Len(x) |-> LogSumExp(x[j])] : x \in {t} } : TRUE

\* torch.logsumexp(t, dim=1) of a [j][i][l] tensor: [j][l]
LogSumExpDim1of3(t) ==
    CHOOSE r \in { [j \in 1..Len(x) |-> [l \in 1..Len(x[j][1]) |->
                      LogSumExp([i \in 1..Len(x[j]) |-> x[j][i][l]])]] :
                   x \in {t} } : TRUE

\* torch.diag of a square [j][i] tensor
Diag(t) == CHOOSE r \in { [j \in 1..Len(x) |-> x[j][j]] : x \in {t} } : TRUE

\* elementwise a - b of one-dimensional tensors
VSub(a, b) ==
    CHOOSE r \in { [j \in 1..Len(x) |-> RSub(x[j], y[j])] : x \in {a}, y \in {b} } : TRUE

index_code_mi(z, mu, logvar) ==
    LET log_qz_prob == _gaussian_log_density_unsummed(z, mu, logvar)
        log_qz      == LogSumExpDim1(SumDim2(log_qz_prob))
        log_qz_     == Diag(SumDim2(log_qz_prob))
    IN  RMean(VSub(log_qz_, log_qz))

total_correlation_swapped(z, mu, logvar) ==
    LET log_qz_prob    == _gaussian_log_density_unsummed(z, mu, logvar)
        log_qz_product == LogSumExpDim1(SumDim2(log_qz_prob))
        log_qz         == LogSumExpDim1(SumDim2(log_qz_prob))
    IN  RMean(VSub(log_qz, log_qz_product))

total_correlation(z, mu, logvar) ==
    LET log_qz_prob    == _gaussian_log_density_unsummed(z, mu, logvar)
        log_qz_product == SumDim1(LogSumExpDim1of3(log_qz_prob))
        log_qz         == LogSumExpDim1(SumDim2(log_qz_prob))
    IN  RMean(VSub(log_qz, log_qz_product))

dimension_wise_kl_to_std_normal(z, mu, logvar) ==
    LET log_qz_prob    == _gaussian_log_density_unsummed(z, mu, logvar)
        log_qz_product == SumDim1(LogSumExpDim1of3(log_qz_prob))
        log_pz_prob    == _gaussian_log_density_unsummed_std_normal(z)
        log_pz_product == SumDim1(log_pz_prob)
    IN  RMean(VSub(log_qz_product, log_pz_product))

decomposed_kl_nodiag(z, mu, logvar) ==
    LET log_qz_prob    == _gaussian_log_density_unsummed(z, mu, logvar)
        log_qz         == LogSumExpDim1(SumDim2(log_qz_prob))
        log_qz_        == [j \in 1..Len(z) |-> SumDim2(log_qz_prob)[j][1]]
        log_qz_product == SumDim1(LogSumExpDim1of3(log_qz_prob))
        log_pz_prob    == _gaussian_log_density_unsummed_std_normal(z)
        log_pz_product == SumDim1(log_pz_prob)
        idx_code_mi    == RMean(VSub(log_qz_, log_qz))
        total_corr     == RMean(VSub(log_qz, log_qz_product))
        dim_wise_kl    == RMean(VSub(log_qz_product, log_pz_product))
    IN  <<idx_code_mi, total_corr, dim_wise_kl>>

decomposed_kl(z, mu, logvar) ==
    LET log_qz_prob    == _gaussian_log_density_unsummed(z, mu, logvar)
        log_qz         == LogSumExpDim1(SumDim2(log_qz_prob))
        log_qz_        == Diag(SumDim2(log_qz_prob))
        log_qz_product == SumDim1(LogSumExpDim1of3(log_qz_prob))
        log_pz_prob    == _gaussian_log_density_unsummed_std_normal(z)
        log_pz_product == SumDim1(log_pz_prob)
        idx_code_mi    == RMean(VSub(log_qz_, log_qz))
        total_corr     == RMean(VSub(log_qz, log_qz_product))
        dim_wise_kl    == RMean(VSub(log_qz_product, log_pz_product))
    IN  <<idx_code_mi, total_corr, dim_wise_kl>>


----------------------------------------------------------------------------
(* State                                                                   *)

VARIABLES
    hparams,   \* the hparams dict handed to a constructor (a function of its keys)
    self,      \* the attributes the object has so far (a function of their names)
    exc,       \* the exception the last operation raised, or "None"
    pc,        \* position of the caller / of the running method
    ret,       \* what the last call returned, or None
    args,      \* the tensors handed to the loss functions of losses.py
    out,       \* the values the loss functions of losses.py returned
    data,      \* the batch handed to VAEGAN.loss: a dict with 'images' and maybe 'masks'
    fr,        \* the local variables of the running (or last) call of VAEGAN.loss
    log,       \* the forward / loss / backward events of that call, in order
    prev       \* the last single-chunk call of VAEGAN.loss completed before that
               \* one in the same epoch, or None

vars == <<hparams, self, exc, pc, ret, args, out, data, fr, log, prev>>

\* the state of VAEGAN.loss and of its caller
lossvars == <<data, fr, log, prev>>

\* Python dicts and attribute tables
EmptyDict == [k \in {} |-> None]

SetItem(d, k, v) == [x \in (DOMAIN d) \cup {k} |-> IF x = k THEN v ELSE d[x]]

Get(d, k, default) == IF k \in DOMAIN d THEN d[k] ELSE default

----------------------------------------------------------------------------
(* VAEGAN.__init__                                                         *)

\* largest vae.beta_anneal_epochs and max_n_epochs tried
MaxAnneal == 4
MaxEpochs == 6

BetaChoices == {R(1), R(2), Rat(1, 2)}

\* np.linspace(start, stop, num)
Linspace(start, stop, num) ==
    [i \in 1..num |->
        IF num = 1 THEN start
        ELSE RAdd(start, RDiv(RMul(R(i - 1), RSub(stop, start)), R(num - 1)))]

\* np.ones(n)
Ones(n) == [i \in 1..n |-> R(1)]

\* the schedule with a tail one entry short
BetaValsShort(hp, anneal_epochs) ==
    IF anneal_epochs > 0
    THEN Linspace(R(0), hp["vae.beta"], anneal_epochs) \o Ones(hp["max_n_epochs"])
    ELSE [i \in 1..hp["max_n_epochs"] |-> RMul(hp["vae.beta"], R(1))]

\* self.beta_vals as set up by the kl annealing block
BetaVals(hp, anneal_epochs) ==
    IF anneal_epochs > 0
    THEN Linspace(R(0), hp["vae.beta"], anneal_epochs) \o Ones(hp["max_n_epochs"] + 1)
    ELSE [i \in 1..(hp["max_n_epochs"] + 1) |-> RMul(hp["vae.beta"], Ones(hp["max_n_epochs"] + 1)[i])]

\* beta_vals[i] with Python's zero-based index
At(seq, i) == seq[i + 1]

\* super().__init__(hparams): the parent keeps a reference to the dict and builds
\* the encoder / decoder pair
VAE__init__(s, hp) == SetItem(SetItem(s, "hparams", "ref"), "encoding", "built")

\* the constructor with the model_type check after the first assignment
VAEGAN__init__late ==
    /\ pc = "new"
    /\ hparams' = SetItem(hparams, "variational", TRUE)
    /\ IF hparams["model_type"] = "linear"
       THEN /\ exc' = "NotImplementedError"
            /\ pc' = "raised"
            /\ UNCHANGED self
       ELSE /\ self' = SetItem(SetItem(VAE__init__(self, hparams'), "curr_epoch", 0),
                               "beta_vals",
                               BetaVals(hparams', Get(hparams', "vae.beta_anneal_epochs", 0)))
            /\ pc' = "constructed"
            /\ UNCHANGED exc
    /\ UNCHANGED <<ret, args, out, lossvars>>

VAEGAN__init__ ==
    /\ pc = "new"
    /\ IF hparams["model_type"] = "linear"
       THEN /\ exc' = "NotImplementedError"
            /\ pc' = "raised"
            /\ UNCHANGED <<hparams, self>>
       ELSE LET hp == SetItem(hparams, "variational", TRUE)
                s1 == VAE__init__(self, hp)
                anneal_epochs == Get(hp, "vae.beta_anneal_epochs", 0)
                s2 == SetItem(s1, "curr_epoch", 0)
            IN  /\ hparams' = hp
                /\ self' = SetItem(s2, "beta_vals", BetaVals(hp, anneal_epochs))
                /\ pc' = "constructed"
                /\ UNCHANGED exc
    /\ UNCHANGED <<ret, args, out, lossvars>>

VAEGANHparams ==
    { [k \in {"model_type", "vae.beta", "max_n_epochs"} \cup a.keys |->
          CASE k = "model_type" -> mt
            [] k = "vae.beta" -> b
            [] k = "max_n_epochs" -> n
            [] k = "vae.beta_anneal_epochs" -> a.val] :
        mt \in {"conv", "linear"}, b \in BetaChoices, n \in 0..MaxEpochs,
        a \in {[keys |-> {}, val |-> 0]}
              \cup {[keys |-> {"vae.beta_anneal_epochs"}, val |-> w] : w \in 0..MaxAnneal} }

InitCtor ==
    /\ hparams \in VAEGANHparams
    /\ self = EmptyDict
    /\ exc = "None"
    /\ pc = "new"
    /\ ret = None
    /\ args = None
    /\ out = None
    /\ data = None
    /\ fr = None
    /\ log = <<>>
    /\ prev = None

NextCtor == VAEGAN__init__

SpecCtor == InitCtor /\ [][NextCtor]_vars

\* C1: with vae.beta_anneal_epochs = W > 0 the schedule is linspace(0, vae.beta, W)
\* on indices 0..W-1 and equals vae.beta at every index >= W.
C1_ScheduleHeldAtBeta ==
    (pc = "constructed" /\ Get(hparams, "vae.beta_anneal_epochs", 0) > 0) =>
        LET W  == hparams["vae.beta_anneal_epochs"]
            bv == self["beta_vals"]
        IN  /\ \A i \in 0..(W - 1) : At(bv, i) = At(Linspace(R(0), hparams["vae.beta"], W), i)
            /\ \A i \in W..(Len(bv) - 1) : At(bv, i) = hparams["vae.beta"]

\* C2 as stated: after construction the schedule has length exactly
\* max_n_epochs + 1, with or without an annealing window.
C2_LengthIsMaxEpochsPlusOne ==
    pc = "constructed" => Len(self["beta_vals"]) = hparams["max_n_epochs"] + 1

\* C2 as amended: the schedule has length max_n_epochs + 1 when the annealing
\* window is 0 or absent and W + max_n_epochs + 1 when the window is W > 0, so
\* it always has at least max_n_epochs + 1 entries.
C2_LengthCoversEpochs ==
    pc = "constructed" =>
        LET W == Get(hparams, "vae.beta_anneal_epochs", 0)
        IN  /\ Len(self["beta_vals"]) = (IF W > 0 THEN W ELSE 0) + hparams["max_n_epochs"] + 1
            /\ Len(self["beta_vals"]) >= hparams["max_n_epochs"] + 1

C2_Witness ==
    /\ pc = "constructed"
    /\ Get(hparams, "vae.beta_anneal_epochs", 0) = 4
    /\ hparams["max_n_epochs"] = 6
    /\ Len(self["beta_vals"]) = 11

\* C5: a 'linear' model_type raises NotImplementedError before any other step of
\* the constructor: hparams is unchanged (no 'variational' key), the parent
\* constructor has not run, and neither curr_epoch nor beta_vals exists.
C5_LinearRaisesFirst ==
    [][(pc = "new" /\ hparams["model_type"] = "linear") =>
          /\ pc' = "raised"
          /\ exc' = "NotImplementedError"
          /\ hparams' = hparams
          /\ "variational" \notin DOMAIN hparams'
          /\ DOMAIN self' = {}]_vars

C5_Witness ==
    /\ pc = "raised"
    /\ exc = "NotImplementedError"
    /\ hparams["model_type"] = "linear"
    /\ "vae.beta_anneal_epochs" \in DOMAIN hparams

----------------------------------------------------------------------------
(* ConvDecoder                                                             *)

\* largest n_labels tried
MaxLabels == 2

ModelTypes == {"conv", "linear", "ff", "Conv"}

\* ConvAEDecoder(hparams) and LinearAEDecoder(n_labels, img_size): the decoder
\* networks, kept as opaque objects
ConvAEDecoder(hp) == [cls |-> "ConvAEDecoder", n_in |-> hp["hidden_layer_size"]]

LinearAEDecoder(n_labels, img_size) ==
    [cls |-> "LinearAEDecoder", n_in |-> n_labels, img_size |-> img_size]

\* a call of the decoder network on x
CallDecoding(decoding, x) == [by |-> decoding.cls, x |-> x]

\* build_model falling back to the convolutional decoder for unknown types
build_model_fallback(s, hp) ==
    LET hp1 == SetItem(hp, "hidden_layer_size", hp["n_labels"])
    IN  IF s["model_type"] = "linear"
        THEN IF Get(hp1, "fit_sess_io_layers", FALSE)
             THEN [exc |-> "NotImplementedError", self |-> s, hparams |-> hp1]
             ELSE [exc |-> "None", hparams |-> hp1,
                   self |-> SetItem(s, "decoding",
                                    LinearAEDecoder(hp1["n_labels"], s["img_size"]))]
        ELSE [exc |-> "None", hparams |-> hp1,
              self |-> SetItem(s, "decoding", ConvAEDecoder(hp1))]

\* build_model on the object s whose hparams dict is hp: the exception raised,
\* the object and the dict afterwards
build_model(s, hp) ==
    LET hp1 == SetItem(hp, "hidden_layer_size", hp["n_labels"])
    IN  IF s["model_type"] = "conv"
        THEN [exc |-> "None", hparams |-> hp1,
              self |-> SetItem(s, "decoding", ConvAEDecoder(hp1))]
        ELSE IF s["model_type"] = "linear"
        THEN IF Get(hp1, "fit_sess_io_layers", FALSE)
             THEN [exc |-> "NotImplementedError", self |-> s, hparams |-> hp1]
             ELSE [exc |-> "None", hparams |-> hp1,
                   self |-> SetItem(s, "decoding",
                                    LinearAEDecoder(hp1["n_labels"], s["img_size"]))]
        ELSE [exc |-> "ValueError", self |-> s, hparams |-> hp1]

ConvDecoder__init__ ==
    /\ pc = "new"
    /\ LET s0 == [hparams |-> "ref",
                  model_type |-> hparams["model_type"],
                  img_size |-> <<hparams["n_input_channels"], hparams["y_pixels"],
                                 hparams["x_pixels"]>>,
                  decoding |-> None]
           b  == build_model(s0, hparams)
       IN  /\ self' = b.self
           /\ hparams' = b.hparams
           /\ exc' = b.exc
           /\ pc' = IF b.exc = "None" THEN "constructed" ELSE "raised"
    /\ UNCHANGED <<ret, args, out, lossvars>>

\* the owner assigns model_type on the constructed object
SetModelType ==
    /\ pc = "constructed"
    /\ \E t \in ModelTypes : self' = [self EXCEPT !["model_type"] = t]
    /\ UNCHANGED <<hparams, exc, pc, ret, args, out, lossvars>>

\* forward(x): the exception raised and the value returned
forward_dispatch(s, x) ==
    IF s["model_type"] = "conv"
    THEN [exc |-> "None", y |-> CallDecoding(s["decoding"], x)]
    ELSE IF s["model_type"] = "linear"
    THEN [exc |-> "None", y |-> CallDecoding(s["decoding"], x)]
    ELSE [exc |-> "ValueError", y |-> None]

ConvDecoder_forward ==
    /\ pc = "constructed"
    /\ \E x \in 1..MaxLabels :
         LET f == forward_dispatch(self, x)
         IN  /\ exc' = f.exc
             /\ ret' = f.y
    /\ UNCHANGED <<hparams, self, pc, args, out, lossvars>>

ConvDecoderHparams ==
    { [k \in {"model_type", "n_labels", "n_input_channels", "y_pixels", "x_pixels"}
             \cup f.keys |->
          CASE k = "model_type" -> mt
            [] k = "n_labels" -> n
            [] k = "n_input_channels" -> 1
            [] k = "y_pixels" -> 2
            [] k = "x_pixels" -> 2
            [] k = "fit_sess_io_layers" -> f.val] :
        mt \in ModelTypes, n \in 1..MaxLabels,
        f \in {[keys |-> {}, val |-> FALSE]}
              \cup {[keys |-> {"fit_sess_io_layers"}, val |-> v] : v \in BOOLEAN} }

InitDecoder ==
    /\ hparams \in ConvDecoderHparams
    /\ self = EmptyDict
    /\ exc = "None"
    /\ pc = "new"
    /\ ret = None
    /\ args = None
    /\ out = None
    /\ data = None
    /\ fr = None
    /\ log = <<>>
    /\ prev = None

NextDecoder == ConvDecoder__init__ \/ SetModelType \/ ConvDecoder_forward

SpecDecoder == InitDecoder /\ [][NextDecoder]_vars

\* C6: a model_type other than 'conv' or 'linear' raises ValueError in the
\* constructor (no decoder is built) and, once the type of a constructed object is
\* invalid, in forward (no output is returned); 'linear' with
\* fit_sess_io_layers=True raises NotImplementedError in the constructor.
C6_InvalidModelTypeIsFatal ==
    [][/\ (pc = "new" /\ hparams["model_type"] \notin {"conv", "linear"}) =>
             /\ pc' = "raised"
             /\ exc' = "ValueError"
             /\ self'["decoding"] = None
       /\ (pc = "new" /\ hparams["model_type"] = "linear"
             /\ Get(hparams, "fit_sess_io_layers", FALSE)) =>
             /\ pc' = "raised"
             /\ exc' = "NotImplementedError"
             /\ self'["decoding"] = None
       /\ (pc = "constructed" /\ self["model_type"] \notin {"conv", "linear"}
             /\ self' = self) =>
             /\ exc' = "ValueError"
             /\ ret' = None]_vars

C6_Witness ==
    /\ pc = "constructed"
    /\ hparams["model_type"] = "conv"
    /\ self["model_type"] = "ff"
    /\ exc = "ValueError"
    /\ ret = None

----------------------------------------------------------------------------
(* The KL estimators of losses.py on small batches                         *)

\* largest batch (n_frames) and largest number of latent dimensions tried
MaxFrames == 2
MaxLatents == 2

\* one frame of a batch: the sample, the mean and the log variance its first
\* latent dimension carries
LatentKinds == [z : {0, 1}, mu : {0, 1}, logvar : {0, 0 - 1}]

\* rows of n_dims entries: odd dimensions carry the frame's own values, even
\* dimensions carry z = 1 - mu, mu = 1 - mu, logvar = 0
ZRow(k, d) == [l \in 1..d |-> R(IF l % 2 = 1 THEN k.z ELSE 1 - k.mu)]

MuRow(k, d) == [l \in 1..d |-> R(IF l % 2 = 1 THEN k.mu ELSE 1 - k.mu)]

LogvarRow(k, d) == [l \in 1..d |-> R(IF l % 2 = 1 THEN k.logvar ELSE 0)]

\* the batches of at most max_frames frames and max_latents latent dimensions
KLInputs(max_frames, max_latents) ==
    UNION { UNION { { [z      |-> [j \in 1..n |-> ZRow(ks[j], d)],
                       mu     |-> [j \in 1..n |-> MuRow(ks[j], d)],
                       logvar |-> [j \in 1..n |-> LogvarRow(ks[j], d)]] :
                      ks \in [1..n -> LatentKinds] } :
                    d \in 1..max_latents } :
            n \in 1..max_frames }

InitKL ==
    /\ args \in KLInputs(MaxFrames, MaxLatents)
    /\ out = [k \in {} |-> None]
    /\ pc = "kl"
    /\ hparams = None
    /\ self = None
    /\ exc = "None"
    /\ ret = None
    /\ data = None
    /\ fr = None
    /\ log = <<>>
    /\ prev = None

Call_decomposed_kl ==
    /\ pc = "kl"
    /\ "decomposed_kl" \notin DOMAIN out
    /\ out' = SetItem(out, "decomposed_kl", decomposed_kl(args.z, args.mu, args.logvar))
    /\ UNCHANGED <<hparams, self, exc, pc, ret, args, lossvars>>

Call_index_code_mi ==
    /\ pc = "kl"
    /\ DOMAIN out = {"decomposed_kl"}
    /\ out' = SetItem(out, "index_code_mi", index_code_mi(args.z, args.mu, args.logvar))
    /\ UNCHANGED <<hparams, self, exc, pc, ret, args, lossvars>>

Call_total_correlation ==
    /\ pc = "kl"
    /\ DOMAIN out = {"decomposed_kl", "index_code_mi"}
    /\ out' = SetItem(out, "total_correlation",
                      total_correlation(args.z, args.mu, args.logvar))
    /\ UNCHANGED <<hparams, self, exc, pc, ret, args, lossvars>>

Call_dimension_wise_kl_to_std_normal ==
    /\ pc = "kl"
    /\ DOMAIN out = {"decomposed_kl", "index_code_mi", "total_correlation"}
    /\ out' = SetItem(out, "dimension_wise_kl_to_std_normal",
                      dimension_wise_kl_to_std_normal(args.z, args.mu, args.logvar))
    /\ UNCHANGED <<hparams, self, exc, pc, ret, args, lossvars>>

Call_kl_div_to_std_normal ==
    /\ pc = "kl"
    /\ "kl_div_to_std_normal" \notin DOMAIN out
    /\ "dimension_wise_kl_to_std_normal" \in DOMAIN out
    /\ out' = SetItem(out, "kl_div_to_std_normal", kl_div_to_std_normal(args.mu, args.logvar))
    /\ UNCHANGED <<hparams, self, exc, pc, ret, args, lossvars>>

NextKL ==
    \/ Call_decomposed_kl
    \/ Call_index_code_mi
    \/ Call_total_correlation
    \/ Call_dimension_wise_kl_to_std_normal
    \/ Call_kl_div_to_std_normal

SpecKL == InitKL /\ [][NextKL]_vars

\* the tolerance 1e-5, rounded up to the resolution of the fixed-point exp and log
Tol == Rat(1, Prec)

\* mean over the batch of log q(z_j | x_j) - log p(z_j), summed over dimensions:
\* the one-sample estimate of the KL divergence at the samples z
SampleKL(z, mu, logvar) ==
    RMean([j \in 1..Len(z) |->
        RSub(RSum(_gaussian_log_density_unsummed(z, mu, logvar)[j][j]),
             RSum(_gaussian_log_density_unsummed_std_normal(z)[j]))])

\* C7 as stated: index-code MI + total correlation + dimension-wise KL equals,
\* up to the tolerance, kl_div_to_std_normal(mu, logvar).
C7_SumEqualsClosedFormKL ==
    {"decomposed_kl", "kl_div_to_std_normal"} \subseteq DOMAIN out =>
        LET d == out["decomposed_kl"]
        IN  RLe(RAbs(RSub(RAdd(RAdd(d[1], d[2]), d[3]), out["kl_div_to_std_normal"])), Tol)

\* C7 as amended: the three terms are additive (the intermediate log_qz and
\* log_qz_product cancel), and their sum is the batch mean of
\* log q(z_j | x_j) - log p(z_j) at the given samples z; it depends on z and is
\* not the closed-form kl_div_to_std_normal(mu, logvar).
C7_SumEqualsSampleKL ==
    "decomposed_kl" \in DOMAIN out =>
        LET d == out["decomposed_kl"]
        IN  RAdd(RAdd(d[1], d[2]), d[3]) = SampleKL(args.z, args.mu, args.logvar)

C7_Witness ==
    /\ {"decomposed_kl", "kl_div_to_std_normal"} \subseteq DOMAIN out
    /\ Len(args.z) = 2
    /\ Len(args.z[1]) = 2
    /\ args.z # args.mu
    /\ out["decomposed_kl"][2] # R(0)
    /\ RAdd(RAdd(out["decomposed_kl"][1], out["decomposed_kl"][2]), out["decomposed_kl"][3])
         # out["kl_div_to_std_normal"]

\* C8: the triple decomposed_kl returns equals, in order, what index_code_mi,
\* total_correlation and dimension_wise_kl_to_std_normal return on the same input.
C8_CombinedEqualsStandalone ==
    /\ "index_code_mi" \in DOMAIN out => out["decomposed_kl"][1] = out["index_code_mi"]
    /\ "total_correlation" \in DOMAIN out =>
           out["decomposed_kl"][2] = out["total_correlation"]
    /\ "dimension_wise_kl_to_std_normal" \in DOMAIN out =>
           out["decomposed_kl"][3] = out["dimension_wise_kl_to_std_normal"]

C8_Witness ==
    /\ "dimension_wise_kl_to_std_normal" \in DOMAIN out
    /\ Len(args.z) = 2
    /\ Len(args.z[1]) = 2
    /\ out["total_correlation"] # R(0)
    /\ out["index_code_mi"] # R(0)
    /\ out["index_code_mi"] # out["total_correlation"]

----------------------------------------------------------------------------
(* gaussian_ll, gaussian_ll_to_mse and mse on small batches                *)

\* largest number of non-frame dimensions (pixels per frame) tried
MaxDims == 2

\* one frame of a batch: the predicted and the true value of its first pixel and
\* the pattern of its mask
PixelKinds == [pred : {1, 2}, mean : {0, 1}, mask : {"ones", "zeros", "alt"}]

\* pixel l of a frame holds l times the value of the first pixel
PredRow(k, d) == [l \in 1..d |-> R(k.pred * l)]

MeanRow(k, d) == [l \in 1..d |-> R(k.mean * l)]

MaskRow(k, d) ==
    [l \in 1..d |-> R(CASE k.mask = "ones" -> 1
                        [] k.mask = "zeros" -> 0
                        [] k.mask = "alt" -> l % 2)]

\* the batches of at most max_frames frames and max_dims pixels per frame
LLInputs(max_frames, max_dims) ==
    UNION { UNION { { [y_pred |-> [i \in 1..n |-> PredRow(ks[i], d)],
                       y_mean |-> [i \in 1..n |-> MeanRow(ks[i], d)],
                       masks  |-> IF use_masks THEN [i \in 1..n |-> MaskRow(ks[i], d)]
                                  ELSE None,
                       std    |-> R(std)] :
                      ks \in [1..n -> PixelKinds], use_masks \in BOOLEAN, std \in {1, 2} } :
                    d \in 1..max_dims } :
            n \in 1..max_frames }

InitLL ==
    /\ args \in LLInputs(MaxFrames, MaxDims)
    /\ out = [k \in {} |-> None]
    /\ pc = "ll"
    /\ hparams = None
    /\ self = None
    /\ exc = "None"
    /\ ret = None
    /\ data = None
    /\ fr = None
    /\ log = <<>>
    /\ prev = None

Call_gaussian_ll ==
    /\ pc = "ll"
    /\ "gaussian_ll" \notin DOMAIN out
    /\ out' = SetItem(out, "gaussian_ll",
                      gaussian_ll(args.y_pred, args.y_mean, args.masks, args.std))
    /\ UNCHANGED <<hparams, self, exc, pc, ret, args, lossvars>>

\* gaussian_ll_to_mse(ll, n_dims=prod(shape[1:]), gaussian_std=std, mse_std=1) on the
\* value gaussian_ll returned
Call_gaussian_ll_to_mse ==
    /\ pc = "ll"
    /\ "gaussian_ll" \in DOMAIN out
    /\ "gaussian_ll_to_mse" \notin DOMAIN out
    /\ out' = SetItem(out, "gaussian_ll_to_mse",
                      gaussian_ll_to_mse(out["gaussian_ll"], Len(args.y_pred[1]),
                                         args.std, R(1)))
    /\ UNCHANGED <<hparams, self, exc, pc, ret, args, lossvars>>

Call_mse ==
    /\ pc = "ll"
    /\ "gaussian_ll_to_mse" \in DOMAIN out
    /\ "mse" \notin DOMAIN out
    /\ out' = SetItem(out, "mse", mse(args.y_pred, args.y_mean, args.masks))
    /\ UNCHANGED <<hparams, self, exc, pc, ret, args, lossvars>>

NextLL == Call_gaussian_ll \/ Call_gaussian_ll_to_mse \/ Call_mse

SpecLL == InitLL /\ [][NextLL]_vars

\* C9: without a mask, gaussian_ll_to_mse(gaussian_ll(pred, mean, std=s),
\* n_dims=prod(shape[1:]), gaussian_std=s, mse_std=1) equals mse(pred, mean), is 0
\* when pred == mean, and the ll handed to the conversion keeps its value.
C9_ConversionInvertsGaussianLL ==
    /\ (args.masks = None /\ "mse" \in DOMAIN out) =>
           out["gaussian_ll_to_mse"] = out["mse"]
    /\ (args.masks = None /\ args.y_pred = args.y_mean /\ "gaussian_ll_to_mse" \in DOMAIN out) =>
           out["gaussian_ll_to_mse"] = R(0)
    /\ "gaussian_ll_to_mse" \in DOMAIN out =>
           out["gaussian_ll"] = gaussian_ll(args.y_pred, args.y_mean, args.masks, args.std)

C9_Witness ==
    /\ args.masks = None
    /\ "mse" \in DOMAIN out
    /\ args.std = R(2)
    /\ Len(args.y_pred) = 2
    /\ Len(args.y_pred[1]) = 2
    /\ out["mse"] # R(0)
    /\ out["gaussian_ll_to_mse"] # out["gaussian_ll"]

\* squared error of frame i summed over the entries its mask keeps
RECURSIVE KeptSqErr(_, _)
KeptSqErr(i, p) ==
    IF p = 0 THEN R(0)
    ELSE IF args.masks[i][p] = R(0) THEN KeptSqErr(i, p - 1)
    ELSE RAdd(KeptSqErr(i, p - 1), Sq(RSub(args.y_pred[i][p], args.y_mean[i][p])))

\* the normalizing constant of one frame: (0.5 * ln(2 pi) + 0.5 * ln(std^2)) * n_dims
NormConst == RMul(RAdd(RMul(Half, LN2PI), RMul(Half, Ln(Sq(args.std)))), R(Len(args.y_pred[1])))

\* C10: with a mask, masked-out entries add nothing to the squared-error sum while
\* the normalizing constant is taken over all n_dims = prod(shape[1:]) entries; an
\* all-zero mask yields exactly -(0.5 * ln(2 pi) + 0.5 * ln(std^2)) * n_dims.
C10_MaskKeepsFullNormalizer ==
    (args.masks # None /\ "gaussian_ll" \in DOMAIN out) =>
        /\ out["gaussian_ll"] =
               RMean([i \in 1..Len(args.y_pred) |->
                   RSub(RNeg(NormConst),
                        RMul(RDiv(Half, Sq(args.std)), KeptSqErr(i, Len(args.y_pred[i]))))])
        /\ (\A i \in 1..Len(args.masks) : \A p \in 1..Len(args.masks[i]) :
                args.masks[i][p] = R(0)) => out["gaussian_ll"] = RNeg(NormConst)

C10_Witness ==
    /\ args.masks # None
    /\ "gaussian_ll" \in DOMAIN out
    /\ \A i \in 1..Len(args.masks) : \A p \in 1..Len(args.masks[i]) : args.masks[i][p] = R(0)
    /\ Len(args.y_pred) = 2
    /\ Len(args.y_pred[1]) = 2
    /\ args.y_pred[1] # args.y_mean[1]
    /\ args.std = R(2)
    /\ out["gaussian_ll"] = RNeg(NormConst)

----------------------------------------------------------------------------
(* VAEGAN.forward and VAEGAN.loss                                          *)

\* largest batch and largest chunk_size tried, and the pixels of one frame
MaxBatch == 3
MaxChunk == 3
ImgDims == 2

\* the values one draw of the reparameterization noise can take
NoiseVals == {0, 1}

\* the encoder network: one latent per frame, mean and log variance read off the
\* frame's first pixel
encoding(x) ==
    [mu     |-> [i \in 1..Len(x) |-> <<x[i][1]>>],
     logvar |-> [i \in 1..Len(x) |-> <<RNeg(x[i][1])>>]]

\* z = mu + exp(0.5 * logvar) * eps, eps the noise drawn for this call
reparameterize(mu, logvar, eps) ==
    [i \in 1..Len(mu) |-> [l \in 1..Len(mu[i]) |->
        RAdd(mu[i][l], RMul(Exp(RMul(Half, logvar[i][l])), R(eps[i][l])))]]

\* the decoder network: every pixel of a frame shows the frame's latent
decoding(z) == [i \in 1..Len(z) |-> [p \in 1..ImgDims |-> z[i][1]]]

\* VAEGAN.forward(x, use_mean) with the noise eps
VAEGAN_forward(x, use_mean, eps) ==
    LET e == encoding(x)
        z == IF use_mean THEN e.mu ELSE reparameterize(e.mu, e.logvar, eps)
    IN  [x_hat |-> decoding(z), z |-> z, mu |-> e.mu, logvar |-> e.logvar]

Min(a, b) == IF a <= b THEN a ELSE b

\* a / b rounded down
FloorDiv(a, b) == a \div b

\* int(np.ceil(a / b))
CeilDiv(a, b) == (a + b - 1) \div b

\* x[idx_beg:idx_end]
Slice(x, idx_beg, idx_end) == SubSeq(x, idx_beg + 1, idx_end)

\* the step after the losses of a chunk are combined, always through backward
AfterCombineAlwaysBackward(accumulate_grad) == "backward"

\* the step after the losses of a chunk are combined, always past backward
AfterCombineNoBackward(accumulate_grad) == "accumulate"

\* the step after the losses of a chunk are combined
AfterCombine(accumulate_grad) == IF accumulate_grad THEN "backward" ELSE "accumulate"

\* the running sums with every chunk given the same weight
AccumulateUnweighted(f) ==
    [f EXCEPT !.loss_val = RAdd(@, f.loss),
              !.loss_ll_val = RAdd(@, f.loss_ll),
              !.loss_kl_val = RAdd(@, f.loss_kl),
              !.loss_mse_val = RAdd(@, gaussian_ll_to_mse(f.loss_ll, Len(f.x[1]), R(1), R(1)))]

\* the running sums with 'loss' alone not weighted by the chunk size
AccumulateLossUnweighted(f) ==
    [f EXCEPT !.loss_val = RAdd(@, f.loss),
              !.loss_ll_val = RAdd(@, RMul(f.loss_ll, R(f.idx_end - f.idx_beg))),
              !.loss_kl_val = RAdd(@, RMul(f.loss_kl, R(f.idx_end - f.idx_beg))),
              !.loss_mse_val = RAdd(@, RMul(gaussian_ll_to_mse(f.loss_ll, Len(f.x[1]),
                                                               R(1), R(1)),
                                            R(f.idx_end - f.idx_beg)))]

\* the running sums after the chunk held in the locals f
Accumulate(f) ==
    [f EXCEPT !.loss_val = RAdd(@, RMul(f.loss, R(f.idx_end - f.idx_beg))),
              !.loss_ll_val = RAdd(@, RMul(f.loss_ll, R(f.idx_end - f.idx_beg))),
              !.loss_kl_val = RAdd(@, RMul(f.loss_kl, R(f.idx_end - f.idx_beg))),
              !.loss_mse_val = RAdd(@, RMul(gaussian_ll_to_mse(f.loss_ll, Len(f.x[1]),
                                                               R(1), R(1)),
                                            R(f.idx_end - f.idx_beg)))]

\* VAEGAN.loss up to the chunk loop
LossEnter ==
    /\ pc = "constructed"
    /\ \E chunk_size \in 1..MaxChunk, accumulate_grad \in BOOLEAN :
         LET x == data["images"][1]
             m == IF "masks" \in DOMAIN data THEN data["masks"][1] ELSE None
             batch_size == Len(x)
             n_chunks == CeilDiv(batch_size, chunk_size)
         IN  /\ fr' = [chunk_size |-> chunk_size, accumulate_grad |-> accumulate_grad,
                       x |-> x, m |-> m,
                       epoch |-> self["curr_epoch"],
                       beta |-> At(self["beta_vals"], self["curr_epoch"]),
                       batch_size |-> batch_size, n_chunks |-> n_chunks,
                       loss_val |-> R(0), loss_ll_val |-> R(0), loss_kl_val |-> R(0),
                       loss_mse_val |-> R(0),
                       chunk |-> 0, idx_beg |-> 0, idx_end |-> 0,
                       x_in |-> None, m_in |-> None, x_hat |-> None, mu |-> None,
                       logvar |-> None, loss_ll |-> None, loss_kl |-> None, loss |-> None,
                       noise |-> <<>>]
             /\ pc' = IF n_chunks > 0 THEN "forward" ELSE "return"
    /\ prev' = IF ret # None /\ fr.n_chunks = 1 /\ fr.epoch = self["curr_epoch"]
               THEN [loss_dict |-> ret, n_chunks |-> fr.n_chunks, epoch |-> fr.epoch,
                     noise |-> fr.noise]
               ELSE prev
    /\ ret' = None
    /\ log' = <<>>
    /\ UNCHANGED <<hparams, self, exc, args, out, data>>

\* the chunk's slice and its forward pass
LossForward ==
    /\ pc = "forward"
    /\ LET idx_beg == fr.chunk * fr.chunk_size
           idx_end == Min((fr.chunk + 1) * fr.chunk_size, fr.batch_size)
           x_in == Slice(fr.x, idx_beg, idx_end)
           m_in == IF fr.m # None THEN Slice(fr.m, idx_beg, idx_end) ELSE None
       IN  \E eps \in [1..(idx_end - idx_beg) -> [1..1 -> NoiseVals]] :
             LET f == VAEGAN_forward(x_in, FALSE, eps)
             IN  /\ fr' = [fr EXCEPT !.idx_beg = idx_beg, !.idx_end = idx_end,
                                     !.x_in = x_in, !.m_in = m_in,
                                     !.x_hat = f.x_hat, !.mu = f.mu, !.logvar = f.logvar,
                                     !.noise = @ \o eps]
                 /\ log' = Append(log, <<"forward", fr.chunk, idx_beg, idx_end>>)
    /\ pc' = "loss"
    /\ UNCHANGED <<hparams, self, exc, ret, args, out, data, prev>>

\* log-likelihood, kl and their combination
LossCompute ==
    /\ pc = "loss"
    /\ LET loss_ll == gaussian_ll(fr.x_in, fr.x_hat, fr.m_in, R(1))
           loss_kl == kl_div_to_std_normal(fr.mu, fr.logvar)
           loss    == RAdd(RNeg(loss_ll), RMul(fr.beta, loss_kl))
       IN  /\ fr' = [fr EXCEPT !.loss_ll = loss_ll, !.loss_kl = loss_kl, !.loss = loss]
           /\ log' = Append(log, <<"loss", fr.chunk, fr.idx_beg, fr.idx_end,
                                   [loss_ll |-> loss_ll, loss_kl |-> loss_kl,
                                    loss |-> loss]>>)
    /\ pc' = AfterCombine(fr.accumulate_grad)
    /\ UNCHANGED <<hparams, self, exc, ret, args, out, data, prev>>

\* loss.backward()
LossBackward ==
    /\ pc = "backward"
    /\ log' = Append(log, <<"backward", fr.chunk, fr.idx_beg, fr.idx_end>>)
    /\ pc' = "accumulate"
    /\ UNCHANGED <<hparams, self, exc, ret, args, out, data, fr, prev>>

\* the running sums, and on to the next chunk
LossAccumulate ==
    /\ pc = "accumulate"
    /\ fr' = [Accumulate(fr) EXCEPT !.chunk = @ + 1]
    /\ pc' = IF fr.chunk + 1 < fr.n_chunks THEN "forward" ELSE "return"
    /\ UNCHANGED <<hparams, self, exc, ret, args, out, data, log, prev>>

\* the batch means and the returned dict, with the model moved to the next epoch
LossReturnStepsEpoch ==
    /\ pc = "return"
    /\ ret' = [loss |-> RDiv(fr.loss_val, R(fr.batch_size)),
               loss_ll |-> RDiv(fr.loss_ll_val, R(fr.batch_size)),
               loss_kl |-> RDiv(fr.loss_kl_val, R(fr.batch_size)),
               loss_mse |-> RDiv(fr.loss_mse_val, R(fr.batch_size)), beta |-> fr.beta]
    /\ self' = [self EXCEPT !["curr_epoch"] =
                    IF @ < hparams["max_n_epochs"] THEN @ + 1 ELSE @]
    /\ pc' = "constructed"
    /\ UNCHANGED <<hparams, exc, args, out, data, fr, log, prev>>

\* the batch means and the returned dict
LossReturn ==
    /\ pc = "return"
    /\ LET loss_val     == RDiv(fr.loss_val, R(fr.batch_size))
           loss_ll_val  == RDiv(fr.loss_ll_val, R(fr.batch_size))
           loss_kl_val  == RDiv(fr.loss_kl_val, R(fr.batch_size))
           loss_mse_val == RDiv(fr.loss_mse_val, R(fr.batch_size))
       IN  /\ ret' = [loss |-> loss_val, loss_ll |-> loss_ll_val, loss_kl |-> loss_kl_val,
                      loss_mse |-> loss_mse_val, beta |-> fr.beta]
           /\ fr' = [fr EXCEPT !.loss_val = loss_val, !.loss_ll_val = loss_ll_val,
                               !.loss_kl_val = loss_kl_val, !.loss_mse_val = loss_mse_val,
                               !.x_in = None, !.m_in = None, !.x_hat = None, !.mu = None,
                               !.logvar = None, !.loss_ll = None, !.loss_kl = None,
                               !.loss = None]
    /\ pc' = "constructed"
    /\ UNCHANGED <<hparams, self, exc, args, out, data, log, prev>>

\* the training script moves the model to the next epoch
SetEpoch ==
    /\ pc = "constructed"
    /\ self["curr_epoch"] < hparams["max_n_epochs"]
    /\ self' = [self EXCEPT !["curr_epoch"] = @ + 1]
    /\ prev' = None
    /\ UNCHANGED <<hparams, exc, pc, ret, args, out, data, fr, log>>

\* the hparams of the model whose loss is called: beta_vals = [0, 2, 1, 1]
LossHparams ==
    { [k \in {"model_type", "vae.beta", "max_n_epochs", "vae.beta_anneal_epochs"} |->
          CASE k = "model_type" -> "conv"
            [] k = "vae.beta" -> R(2)
            [] k = "max_n_epochs" -> 1
            [] k = "vae.beta_anneal_epochs" -> 2] }

\* the batches of at most max_batch frames, with and without masks: the first
\* pixel of the frames alternates between 0 and 1
LossData(max_batch) ==
    UNION { { [k \in {"images"} \cup mk |->
                 IF k = "images"
                 THEN <<[i \in 1..n |-> [l \in 1..ImgDims |-> R(((i + 1) % 2) + l - 1)]]>>
                 ELSE <<[i \in 1..n |-> [l \in 1..ImgDims |-> R(IF l = 1 THEN 1 ELSE i % 2)]]>>] :
              mk \in {{}, {"masks"}} } :
            n \in 1..max_batch }

InitLoss ==
    /\ hparams \in LossHparams
    /\ self = EmptyDict
    /\ exc = "None"
    /\ pc = "new"
    /\ ret = None
    /\ args = None
    /\ out = None
    /\ data \in LossData(MaxBatch)
    /\ fr = None
    /\ log = <<>>
    /\ prev = None

NextLoss ==
    \/ VAEGAN__init__
    \/ SetEpoch
    \/ LossEnter
    \/ LossForward
    \/ LossCompute
    \/ LossBackward
    \/ LossAccumulate
    \/ LossReturn

SpecLoss == InitLoss /\ [][NextLoss]_vars

C4_BackwardBeforeNextForward ==
    (fr # None /\ fr.accumulate_grad) =>
        \A k \in 1..Len(log) :
            LET chunk == (k - 1) \div 3
            IN  /\ log[k][1] = <<"forward", "loss", "backward">>[((k - 1) % 3) + 1]
                /\ log[k][2] = chunk
                /\ log[k][3] = chunk * fr.chunk_size
                /\ log[k][3] < log[k][4]
                /\ k > 3 => log[k - 3][4] = log[k][3]

C4_Witness ==
    /\ pc = "return"
    /\ fr.accumulate_grad
    /\ fr.n_chunks = 3
    /\ Len(log) = 9
    /\ log[6] = <<"backward", 1, 1, 2>>
    /\ log[7] = <<"forward", 2, 2, 3>>

\* the positions inside a call of VAEGAN.loss
LossSteps == {"forward", "loss", "backward", "accumulate", "return"}

\* C11: VAEGAN.loss never writes curr_epoch or beta_vals; the beta of a call is
\* beta_vals[curr_epoch] as read when the call starts, it stays the same for every
\* chunk and is the 'beta' of the returned dict; curr_epoch changes only by the
\* training script's assignment between calls.
C11_LossLeavesEpochAndSchedule ==
    /\ [](fr # None =>
            /\ fr.beta = At(self["beta_vals"], fr.epoch)
            /\ pc \in LossSteps => fr.epoch = self["curr_epoch"]
            /\ (pc = "constructed" /\ ret # None) => ret.beta = fr.beta)
    /\ [][/\ (pc \in LossSteps \/ (pc = "constructed" /\ pc' # "constructed")) =>
                /\ self' = self
                /\ hparams' = hparams
          /\ (pc \in LossSteps) =>
                /\ fr'.beta = fr.beta
                /\ fr'.epoch = fr.epoch
          /\ (pc = "constructed" /\ self' # self) =>
                /\ pc' = "constructed"
                /\ self'["beta_vals"] = self["beta_vals"]
                /\ ret' = ret]_vars

C11_Witness ==
    /\ pc = "constructed"
    /\ ret # None
    /\ self["curr_epoch"] = 1
    /\ fr.epoch = 1
    /\ fr.n_chunks = 3
    /\ ret.beta = R(2)
    /\ prev # None
    /\ prev.loss_dict.beta = R(2)

----------------------------------------------------------------------------
(* ConvDecoder.loss                                                        *)

\* the constructed decoders whose loss is called, each with its hparams dict
DecoderObjects ==
    { build_model([hparams |-> "ref", model_type |-> hp["model_type"],
                   img_size |-> <<hp["n_input_channels"], hp["y_pixels"], hp["x_pixels"]>>,
                   decoding |-> None], hp) :
        hp \in { [k \in {"model_type", "n_labels", "n_input_channels", "y_pixels",
                         "x_pixels", "device"} |->
                    CASE k = "model_type" -> mt
                      [] k = "n_labels" -> 1
                      [] k = "n_input_channels" -> 1
                      [] k = "y_pixels" -> 1
                      [] k = "x_pixels" -> ImgDims
                      [] k = "device" -> dev] :
                 mt \in {"conv", "linear"}, dev \in {"cpu", "cuda"} } }

\* the batches of LossData with one label per frame
DecoderLossData(max_batch) ==
    { SetItem(d, "labels", <<[i \in 1..Len(d["images"][1]) |-> <<R(i % 2)>>]>>) :
        d \in LossData(max_batch) }

\* ConvDecoder.loss up to the chunk loop
DecoderLossEnter ==
    /\ pc = "decoder"
    /\ \E chunk_size \in 1..MaxChunk, accumulate_grad \in BOOLEAN :
         LET x == data["images"][1]
             y == data["labels"][1]
             m == IF "masks" \in DOMAIN data THEN data["masks"][1] ELSE None
             batch_size == Len(x)
             n_chunks == CeilDiv(batch_size, chunk_size)
         IN  /\ fr' = [chunk_size |-> chunk_size, accumulate_grad |-> accumulate_grad,
                       device |-> IF hparams["device"] = "cuda" THEN "cuda" ELSE "as given",
                       x |-> x, y |-> y, m |-> m,
                       batch_size |-> batch_size, n_chunks |-> n_chunks,
                       loss_val |-> R(0),
                       chunk |-> 0, idx_beg |-> 0, idx_end |-> 0,
                       x_in |-> None, y_in |-> None, m_in |-> None, x_hat |-> None,
                       loss |-> None]
             /\ pc' = IF n_chunks > 0 THEN "dec_forward" ELSE "dec_return"
    /\ ret' = None
    /\ log' = <<>>
    /\ UNCHANGED <<hparams, self, exc, args, out, data, prev>>

\* the chunk's slices and the decoder's forward pass on the labels
DecoderLossForward ==
    /\ pc = "dec_forward"
    /\ LET idx_beg == fr.chunk * fr.chunk_size
           idx_end == Min((fr.chunk + 1) * fr.chunk_size, fr.batch_size)
           x_in == Slice(fr.x, idx_beg, idx_end)
           y_in == Slice(fr.y, idx_beg, idx_end)
           m_in == IF fr.m # None THEN Slice(fr.m, idx_beg, idx_end) ELSE None
           f == forward_dispatch(self, y_in)
       IN  /\ fr' = [fr EXCEPT !.idx_beg = idx_beg, !.idx_end = idx_end,
                               !.x_in = x_in, !.y_in = y_in, !.m_in = m_in,
                               !.x_hat = IF f.exc = "None" THEN decoding(f.y.x) ELSE None]
           /\ exc' = f.exc
           /\ pc' = IF f.exc = "None" THEN "dec_loss" ELSE "raised"
           /\ log' = Append(log, <<"forward", fr.chunk, idx_beg, idx_end>>)
    /\ UNCHANGED <<hparams, self, ret, args, out, data, prev>>

\* loss = losses.mse(x_in, x_hat, m_in)
DecoderLossCompute ==
    /\ pc = "dec_loss"
    /\ fr' = [fr EXCEPT !.loss = mse(fr.x_in, fr.x_hat, fr.m_in)]
    /\ log' = Append(log, <<"loss", fr.chunk, fr.idx_beg, fr.idx_end>>)
    /\ pc' = IF fr.accumulate_grad THEN "dec_backward" ELSE "dec_accumulate"
    /\ UNCHANGED <<hparams, self, exc, ret, args, out, data, prev>>

\* loss.backward()
DecoderLossBackward ==
    /\ pc = "dec_backward"
    /\ log' = Append(log, <<"backward", fr.chunk, fr.idx_beg, fr.idx_end>>)
    /\ pc' = "dec_accumulate"
    /\ UNCHANGED <<hparams, self, exc, ret, args, out, data, fr, prev>>

\* the running sum, and on to the next chunk
DecoderLossAccumulate ==
    /\ pc = "dec_accumulate"
    /\ fr' = [fr EXCEPT !.loss_val = RAdd(@, RMul(fr.loss, R(fr.idx_end - fr.idx_beg))),
                        !.chunk = @ + 1]
    /\ pc' = IF fr.chunk + 1 < fr.n_chunks THEN "dec_forward" ELSE "dec_return"
    /\ UNCHANGED <<hparams, self, exc, ret, args, out, data, log, prev>>

\* the batch mean and the returned dict
DecoderLossReturn ==
    /\ pc = "dec_return"
    /\ LET loss_val == RDiv(fr.loss_val, R(fr.batch_size))
       IN  /\ ret' = [loss |-> loss_val]
           /\ fr' = [fr EXCEPT !.loss_val = loss_val, !.x_in = None, !.y_in = None,
                               !.m_in = None, !.x_hat = None, !.loss = None]
    /\ pc' = "decoder"
    /\ UNCHANGED <<hparams, self, exc, args, out, data, log, prev>>

\* a constructed ConvDecoder and the batch its loss is called on
InitDecoderLoss ==
    /\ \E b \in DecoderObjects :
         /\ hparams = b.hparams
         /\ self = b.self
    /\ exc = "None"
    /\ pc = "decoder"
    /\ ret = None
    /\ args = None
    /\ out = None
    /\ data \in DecoderLossData(MaxBatch)
    /\ fr = None
    /\ log = <<>>
    /\ prev = None

NextDecoderLoss ==
    \/ DecoderLossEnter
    \/ DecoderLossForward
    \/ DecoderLossCompute
    \/ DecoderLossBackward
    \/ DecoderLossAccumulate
    \/ DecoderLossReturn

\* the chunk loops of both models: a VAEGAN or a ConvDecoder and its batch
InitChunks == InitLoss \/ InitDecoderLoss

NextChunks == NextLoss \/ NextDecoderLoss

SpecChunks == InitChunks /\ [][NextChunks]_vars

\* the forward events of the running (or last) call, one per chunk visited
ForwardEvents == SelectSeq(log, LAMBDA e : e[1] = "forward")

\* the call of loss has left its chunk loop
LoopDone == pc \in {"return", "dec_return"} \/ (pc \in {"constructed", "decoder"} /\ ret # None)

\* the chunk at hand has been sliced
ChunkSliced == pc \in {"loss", "backward", "accumulate",
                       "dec_loss", "dec_backward", "dec_accumulate"}

\* C12: the chunk loop of VAEGAN.loss and of ConvDecoder.loss visits
\* ceil(batch_size / chunk_size) ranges [idx_beg, idx_end): they start at 0, each
\* starts where the one before ended, is non-empty and at most chunk_size long,
\* and the last ends at batch_size, so every frame lies in exactly one range and
\* the weights sum to batch_size; images and mask are sliced with the same range.
C12_ChunksPartitionBatch ==
    fr # None =>
        LET F == ForwardEvents
        IN  /\ fr.batch_size >= 1 /\ fr.chunk_size >= 1
            /\ (fr.n_chunks - 1) * fr.chunk_size < fr.batch_size
            /\ fr.batch_size <= fr.n_chunks * fr.chunk_size
            /\ Len(F) <= fr.n_chunks
            /\ \A k \in 1..Len(F) :
                 /\ F[k][2] = k - 1
                 /\ F[k][3] = IF k = 1 THEN 0 ELSE F[k - 1][4]
                 /\ F[k][3] < F[k][4]
                 /\ F[k][4] - F[k][3] <= fr.chunk_size
                 /\ F[k][4] <= fr.batch_size
            /\ LoopDone =>
                 /\ Len(F) = fr.n_chunks
                 /\ F[Len(F)][4] = fr.batch_size
                 /\ \A i \in 0..(fr.batch_size - 1) :
                      Cardinality({k \in 1..Len(F) : F[k][3] <= i /\ i < F[k][4]}) = 1
                 /\ RSum([k \in 1..Len(F) |-> R(F[k][4] - F[k][3])]) = R(fr.batch_size)
            /\ ChunkSliced =>
                 /\ fr.x_in = SubSeq(fr.x, fr.idx_beg + 1, fr.idx_end)
                 /\ Len(fr.x_in) = fr.idx_end - fr.idx_beg
                 /\ fr.m = None => fr.m_in = None
                 /\ fr.m # None => fr.m_in = SubSeq(fr.m, fr.idx_beg + 1, fr.idx_end)
                 /\ <<fr.idx_beg, fr.idx_end>> = <<F[Len(F)][3], F[Len(F)][4]>>

\* a batch of 3 frames with masks went through ConvDecoder.loss in chunks of 2
C12_Witness ==
    /\ pc = "decoder"
    /\ ret # None
    /\ "masks" \in DOMAIN data
    /\ fr.batch_size = 3
    /\ fr.chunk_size = 2
    /\ fr.n_chunks = 2
    /\ ForwardEvents = << <<"forward", 0, 0, 2>>, <<"forward", 1, 2, 3>> >>

\* the events of one kind in the log of the running (or last) call
Events(kind) == SelectSeq(log, LAMBDA e : e[1] = kind)

\* what lines 155-166 and 175-176 give for the frames [idx_beg, idx_end) of x
\* and m when the noise drawn is eps: no accumulate_grad enters
ChunkValues(x, m, beta, idx_beg, idx_end, eps) ==
    CHOOSE r \in
        { LET f  == VAEGAN_forward(x_in, FALSE, e)
              ll == gaussian_ll(x_in, f.x_hat, m_in, R(1))
              kl == kl_div_to_std_normal(f.mu, f.logvar)
          IN  [loss_ll |-> ll, loss_kl |-> kl, loss |-> RAdd(RNeg(ll), RMul(beta, kl)),
               loss_mse |-> gaussian_ll_to_mse(ll, Len(x[1]), R(1), R(1))] :
            x_in \in {Slice(x, idx_beg, idx_end)},
            m_in \in {IF m # None THEN Slice(m, idx_beg, idx_end) ELSE None},
            e \in {eps} } : TRUE

\* one value of every chunk of the call, in chunk order
ChunkField(name) == [k \in 1..Len(Events("loss")) |-> Events("loss")[k][5][name]]

\* gaussian_ll_to_mse(loss_ll.item(), np.prod(x.shape[1:])) of every chunk
ChunkMse ==
    [k \in 1..Len(Events("loss")) |->
        gaussian_ll_to_mse(Events("loss")[k][5].loss_ll, Len(fr.x[1]), R(1), R(1))]

\* the chunk-size-weighted batch mean of the chunk values vals
WeightedMean(vals) ==
    LET E == Events("loss")
    IN  RDiv(RSum([k \in 1..Len(E) |-> RMul(vals[k], R(E[k][4] - E[k][3]))]),
             R(fr.batch_size))

\* C13: backward runs exactly once per chunk (n_chunks times per call) when
\* accumulate_grad is True and never when it is False; the values of every chunk
\* are what its frames, its noise and beta give, and the returned 'loss',
\* 'loss_ll', 'loss_kl', 'loss_mse', 'beta' are their weighted means, whatever
\* accumulate_grad is.
C13_BackwardOncePerChunkOrNever ==
    fr # None =>
        /\ pc = "accumulate" =>
             \E v \in {ChunkValues(fr.x, fr.m, fr.beta, fr.idx_beg, fr.idx_end,
                                   SubSeq(fr.noise, fr.idx_beg + 1, fr.idx_end))} :
                /\ fr.loss_ll = v.loss_ll
                /\ fr.loss_kl = v.loss_kl
                /\ fr.loss = v.loss
                /\ gaussian_ll_to_mse(fr.loss_ll, Len(fr.x[1]), R(1), R(1)) = v.loss_mse
                /\ Events("loss")[fr.chunk + 1][5] =
                       [loss_ll |-> v.loss_ll, loss_kl |-> v.loss_kl, loss |-> v.loss]
                /\ Len(Events("backward")) = IF fr.accumulate_grad THEN fr.chunk + 1 ELSE 0
        /\ (pc = "return" \/ (pc = "constructed" /\ ret # None)) =>
             /\ Len(Events("loss")) = fr.n_chunks
             /\ Len(Events("backward")) = IF fr.accumulate_grad THEN fr.n_chunks ELSE 0
             /\ \A k \in 1..Len(Events("backward")) : Events("backward")[k][2] = k - 1
        /\ (pc = "constructed" /\ ret # None) =>
             ret = [loss     |-> WeightedMean(ChunkField("loss")),
                    loss_ll  |-> WeightedMean(ChunkField("loss_ll")),
                    loss_kl  |-> WeightedMean(ChunkField("loss_kl")),
                    loss_mse |-> WeightedMean(ChunkMse),
                    beta     |-> fr.beta]

\* a call on 3 frames in chunks of 1 ran backward 3 times and returned the means
C13_Witness ==
    /\ pc = "constructed"
    /\ ret # None
    /\ fr.accumulate_grad
    /\ fr.n_chunks = 3
    /\ fr.noise = <<<<1>>, <<0>>, <<1>>>>
    /\ Events("backward") = << <<"backward", 0, 0, 1>>, <<"backward", 1, 1, 2>>,
                               <<"backward", 2, 2, 3>> >>
    /\ ret.beta = R(2)
    /\ ret.loss_kl = WeightedMean(ChunkField("loss_kl"))
    /\ ret.loss_kl # R(0)

\* C14: every chunk has loss = -loss_ll + beta * loss_kl, each returned value is
\* the sum over the chunks of value * chunk size divided by batch_size, and the
\* returned values satisfy loss = -loss_ll + beta * loss_kl again.
C14_WeightedMeansKeepIdentity ==
    fr # None =>
        /\ \A k \in 1..Len(Events("loss")) :
             LET v == Events("loss")[k][5]
             IN  v.loss = RAdd(RNeg(v.loss_ll), RMul(fr.beta, v.loss_kl))
        /\ (pc = "constructed" /\ ret # None) =>
             /\ ret.loss = RAdd(RNeg(ret.loss_ll), RMul(ret.beta, ret.loss_kl))
             /\ ret.loss = WeightedMean(ChunkField("loss"))
             /\ ret.loss_ll = WeightedMean(ChunkField("loss_ll"))
             /\ ret.loss_kl = WeightedMean(ChunkField("loss_kl"))

\* 3 frames in chunks of 2 and 1, with beta = 2 and different values per chunk
C14_Witness ==
    /\ pc = "constructed"
    /\ ret # None
    /\ fr.batch_size = 3
    /\ fr.chunk_size = 2
    /\ Len(Events("loss")) = 2
    /\ Events("loss")[1][5] # Events("loss")[2][5]
    /\ ret.beta = R(2)
    /\ ret.loss_kl # R(0)
    /\ ret.loss # RNeg(ret.loss_ll)
    /\ ret.loss = RAdd(RNeg(ret.loss_ll), RMul(ret.beta, ret.loss_kl))

====
